---- MODULE Spec2Model ----
(***************************************************************************)
(* The tar-to-tar conversion filter of scripts/markthesedown.py:           *)
(* phase_extract reads the inbound archive member by member into a scratch *)
(* directory, phase_transform fans the tasks out to a loky worker pool     *)
(* (joblib.Parallel, return_as='generator'), phase_emit packs the          *)
(* successful conversions into the outbound archive.                       *)
(*                                                                         *)
(* A second program, scripts/flatten-dir.py, copies the files of a          *)
(* directory tree into one flat directory; it has a specification of its   *)
(* own, SpecFlatten.  A third, scripts/urls-under.py, crawls the pages      *)
(* under a start URL breadth first and prints their URLs: SpecCrawl.       *)
(*                                                                         *)
(* Strings of the program (archive member names, path segments) are        *)
(* sequences of one-character strings, so that startswith, basename,       *)
(* splitext, normpath, with_suffix and the sort key compare characters as  *)
(* the Python code does.                                                   *)
(***************************************************************************)
EXTENDS Integers, Sequences, FiniteSets, TLC

(***************************************************************************)
(* Bounds of the model.                                                    *)
(***************************************************************************)
\* The longest inbound archive (number of members) Init draws.
MaxEntries == 3

\* The most files a source tree of flatten-dir.py holds.
MaxFiles == 3

\* The most links of a page urls-under.py fetches.
MaxLinks == 2

(***************************************************************************)
(* String helpers (Python str operations on character sequences).          *)
(***************************************************************************)
Take(s, n) == SubSeq(s, 1, n)

Drop(s, n) == SubSeq(s, n + 1, Len(s))

SetMax(S) == CHOOSE m \in S : \A k \in S : k <= m

\* str.rfind, 1-based; 0 when the character does not occur.
RFind(s, c) ==
    LET I == {i \in 1..Len(s) : s[i] = c}
    IN  IF I = {} THEN 0 ELSE SetMax(I)

\* str.startswith(p)
StartsWith(s, p) == Len(p) <= Len(s) /\ Take(s, Len(p)) = p

\* The characters the model's names use, in code-point order.
Ascii ==
    << ".", "/", "3", "4", "D", "M", "P", "S", "_", "a", "b", "c", "d", "e",
       "f", "g", "h", "i", "l", "m", "o", "p", "r", "s", "t", "v", "w", "x" >>

Ord(c) == CHOOSE i \in 1..Len(Ascii) : Ascii[i] = c

\* Python's str < str: lexicographic by code point, a proper prefix is less.
RECURSIVE StrLess(_, _)
StrLess(s, t) ==
    IF t = << >> THEN FALSE
    ELSE IF s = << >> THEN TRUE
    ELSE IF s[1] = t[1] THEN StrLess(Tail(s), Tail(t))
    ELSE Ord(s[1]) < Ord(t[1])

\* str.lower() on the characters of Ascii.
LowerChar(c) ==
    CASE c = "D" -> "d"
      [] c = "M" -> "m"
      [] c = "P" -> "p"
      [] c = "S" -> "s"
      [] OTHER -> c

Lower(s) == [i \in 1..Len(s) |-> LowerChar(s[i])]

\* str.split('/')
RECURSIVE SplitSlash(_)
SplitSlash(s) ==
    LET I == {i \in 1..Len(s) : s[i] = "/"}
    IN  IF I = {} THEN << s >>
        ELSE LET i == CHOOSE k \in I : \A j \in I : k <= j
             IN  << Take(s, i - 1) >> \o SplitSlash(Drop(s, i))

\* '/'.join(comps)
RECURSIVE JoinSlash(_)
JoinSlash(comps) ==
    IF comps = << >> THEN << >>
    ELSE IF Len(comps) = 1 THEN comps[1]
    ELSE comps[1] \o << "/" >> \o JoinSlash(Tail(comps))

(***************************************************************************)
(* os.path functions used by the filter (posixpath).                       *)
(***************************************************************************)
basename(name) == Drop(name, RFind(name, "/"))

\* os.path.splitext: the extension starts at the last dot of the last
\* component, unless only dots precede it there.
splitext(p) ==
    LET sep == RFind(p, "/")
        dot == RFind(p, ".")
    IN  IF dot > sep /\ \E k \in (sep + 1)..(dot - 1) : p[k] # "."
        THEN << Take(p, dot - 1), Drop(p, dot - 1) >>
        ELSE << p, << >> >>

isabs(name) == StartsWith(name, << "/" >>)

\* The component loop of posixpath.normpath.
RECURSIVE NormComps(_, _, _)
NormComps(comps, acc, slashes) ==
    IF comps = << >> THEN acc
    ELSE LET c == comps[1]
         IN  IF c = << >> \/ c = << "." >>
             THEN NormComps(Tail(comps), acc, slashes)
             ELSE IF c # << ".", "." >>
                     \/ (slashes = 0 /\ acc = << >>)
                     \/ (acc # << >> /\ acc[Len(acc)] = << ".", "." >>)
             THEN NormComps(Tail(comps), Append(acc, c), slashes)
             ELSE IF acc # << >>
             THEN NormComps(Tail(comps), Take(acc, Len(acc) - 1), slashes)
             ELSE NormComps(Tail(comps), acc, slashes)

\* os.path.normpath
normpath(path) ==
    IF path = << >> THEN << "." >>
    ELSE LET slashes ==
                 IF ~StartsWith(path, << "/" >>) THEN 0
                 ELSE IF StartsWith(path, << "/", "/" >>)
                         /\ ~StartsWith(path, << "/", "/", "/" >>)
                 THEN 2 ELSE 1
             body == JoinSlash(NormComps(SplitSlash(path), << >>, slashes))
             full == [i \in 1..slashes |-> "/"] \o body
         IN  IF full = << >> THEN << "." >> ELSE full

(***************************************************************************)
(* Scratch paths.  A scratch path is the sequence of the segments that     *)
(* follow work_dir in a pathlib.Path: << >> is work_dir itself, a leading  *)
(* ".." segment climbs out of work_dir (pathlib keeps ".." segments), and  *)
(* a leading "/" segment stands for an absolute path, which replaces       *)
(* work_dir when it is joined to it.                                       *)
(***************************************************************************)
DotDot == << ".", "." >>

\* work_dir / s, for a string s that os.path.normpath returned.
JoinWorkDir(s) ==
    LET segs == SelectSeq(SplitSlash(s), LAMBDA c : c # << >> /\ c # << "." >>)
    IN  IF isabs(s) THEN << << "/" >> >> \o segs ELSE segs

\* Path.parent
Parent(p) == IF p = << >> THEN << >> ELSE Take(p, Len(p) - 1)

\* Path.suffix of the final segment: from its last dot, unless that dot is the
\* first or the last character.
Suffix(name) ==
    LET dot == RFind(name, ".")
    IN  IF 1 < dot /\ dot < Len(name) THEN Drop(name, dot - 1) ELSE << >>

\* Path.with_suffix(suffix)
with_suffix(p, suffix) ==
    LET name == p[Len(p)]
        stem == Take(name, Len(name) - Len(Suffix(name)))
    IN  Append(Parent(p), stem \o suffix)

\* The path lies inside work_dir (work_dir itself included).
Inside(p) == p = << >> \/ (p[1] # DotDot /\ p[1] # << "/" >>)

IsProperPrefix(p, q) == Len(p) < Len(q) /\ Take(q, Len(p)) = p

\* The path is a directory: work_dir, a directory above it, or a directory that
\* an extracted file made mkdir(parents=True) create.
IsDir(fs, p) ==
    \/ p = << >>
    \/ p[Len(p)] = DotDot
    \/ \E q \in DOMAIN fs : IsProperPrefix(p, q)

\* dest_path.parent.mkdir(parents=True, exist_ok=True) succeeds: no segment of
\* the parent is a regular file.
CanMkdirParents(fs, p) ==
    \A k \in 1..(Len(p) - 1) : Take(p, k) \notin DOMAIN fs

\* Path.write_bytes succeeds: the parent exists and the path is no directory.
CanWrite(fs, p) == ~IsDir(fs, p)

\* The file system after Path.write_bytes(content).
WriteFile(fs, p, content) ==
    [q \in DOMAIN fs \cup {p} |-> IF q = p THEN content ELSE fs[q]]

(***************************************************************************)
(* Member validation and output naming.                                    *)
(***************************************************************************)
JUNK_PATTERNS == { << ".", "D", "S", "_", "S", "t", "o", "r", "e" >> }

JUNK_PREFIXES == { << ".", "_" >> }

SKIP_EXTENSIONS ==
    { << ".", "m", "o", "v" >>, << ".", "m", "p", "4" >>, << ".", "m", "p", "3" >>,
      << ".", "w", "a", "v" >>, << ".", "m", "4", "a" >> }

is_valid_member(name) ==
    LET base == basename(name)
        ext == splitext(base)[2]
    IN  /\ ~(\E pre \in JUNK_PREFIXES : StartsWith(base, pre))
        /\ base \notin JUNK_PATTERNS
        /\ Lower(ext) \notin SKIP_EXTENSIONS
        /\ ~StartsWith(name, DotDot)
        /\ ~isabs(name)

md_output_name(original) == splitext(original)[1] \o << ".", "m", "d" >>

MdTmp == << ".", "m", "d", ".", "t", "m", "p" >>

(***************************************************************************)
(* The conversion capability (MarkItDown.convert), opaque to the filter:   *)
(* what it does with a file is a function of the file's content.  The      *)
(* contents are tokens that name the behaviour they provoke.               *)
(***************************************************************************)
\* "text": returns text; "raise": raises an error ("bad": a message of two
\* lines, "verbose": a long one); "timeout_error": raises a TimeoutError of
\* its own (a network timeout); "hang": never returns; "crash": takes the worker
\* process down (a fault in native code, the kernel's OOM killer).
Behaviour(content) ==
    CASE content \in {"x", "y", "X", "Y", "late", "blank"} -> "text"
      [] content \in {"bad", "verbose"} -> "raise"
      [] content = "tmo" -> "timeout_error"
      [] content = "slow" -> "hang"
      [] content = "boom" -> "crash"

\* How long the capability works on a content, against the 180 seconds of the
\* alarm: "fast" ends well before them, "about180" ends around them (the
\* alarm may fire before the worker disables it, or not), "forever" never
\* ends.
Duration(content) ==
    CASE content = "slow" -> "forever"
      [] content = "late" -> "about180"
      [] OTHER -> "fast"

\* result.text_content for a content the capability converts.
text_content(content) ==
    CASE content \in {"x", "X", "late"} -> "X"
      [] content \in {"y", "Y"} -> "Y"
      [] content = "blank" -> " "

\* str.strip() of the texts of the model.
strip(text) == IF text = " " THEN "" ELSE text

(***************************************************************************)
(* Domain types.                                                           *)
(***************************************************************************)
FileTask(path, original_name, mtime) ==
    [path |-> path, original_name |-> original_name, mtime |-> mtime]

ConvertSuccess(original_name, content_path, mtime) ==
    [kind |-> "Success", original_name |-> original_name,
     content_path |-> content_path, mtime |-> mtime, error |-> << >>]

ConvertSkipped(original_name, reason) ==
    [kind |-> "Skipped", original_name |-> original_name,
     content_path |-> << >>, mtime |-> 0, error |-> reason]

ConvertFailed(original_name, error) ==
    [kind |-> "Failed", original_name |-> original_name,
     content_path |-> << >>, mtime |-> 0, error |-> error]

\* The value of a worker's fields that hold no result yet.
NoResult == ConvertSkipped(<< >>, << >>)

(***************************************************************************)
(* Exceptions and the texts of the outcomes, as character sequences.       *)
(***************************************************************************)
\* An exception: the name of its type and str(e).
Exception(type, msg) == [type |-> type, msg |-> msg]

\* No exception is propagating.
NoException == Exception(<< >>, << >>)

TimeoutErrorName ==
    << "T", "i", "m", "e", "o", "u", "t", "E", "r", "r", "o", "r" >>

ConversionErrorName ==
    << "C", "o", "n", "v", "e", "r", "s", "i", "o", "n", "E", "r",
       "r", "o", "r" >>

IsADirectoryErrorName ==
    << "I", "s", "A", "D", "i", "r", "e", "c", "t", "o", "r", "y",
       "E", "r", "r", "o", "r" >>

\* raise TimeoutError("Conversion timed out")
timeout_handler ==
    Exception(TimeoutErrorName,
        << "C", "o", "n", "v", "e", "r", "s", "i", "o", "n", " ",
           "t", "i", "m", "e", "d", " ", "o", "u", "t" >>)

\* "Timeout (180s)"
TimeoutText ==
    << "T", "i", "m", "e", "o", "u", "t", " ", "(", "1", "8", "0",
       "s", ")" >>

\* "No convertible text content"
NoTextReason ==
    << "N", "o", " ", "c", "o", "n", "v", "e", "r", "t", "i", "b",
       "l", "e", " ", "t", "e", "x", "t", " ", "c", "o", "n", "t",
       "e", "n", "t" >>

\* The [:200] of the except clause.
ErrorLimit == 200

\* A message longer than ErrorLimit.
LongMessage == [i \in 1..(ErrorLimit + 5) |-> "e"]

\* The exception md.convert raises for a content it fails on.
RaisedBy(content) ==
    CASE content = "bad" ->
            Exception(ConversionErrorName,
                << "b", "a", "d", "\n", "t", "r", "a", "c", "e" >>)
      [] content = "verbose" -> Exception(ConversionErrorName, LongMessage)
      [] content = "tmo" ->
            Exception(TimeoutErrorName,
                << "t", "i", "m", "e", "d", " ", "o", "u", "t" >>)

\* str.split('\n')[0]
FirstLine(s) ==
    LET I == {i \in 1..Len(s) : s[i] = "\n"}
    IN  IF I = {} THEN s
        ELSE Take(s, (CHOOSE i \in I : \A j \in I : i <= j) - 1)

\* s[:n]
Truncate(s, n) == IF Len(s) <= n THEN s ELSE Take(s, n)

(***************************************************************************)
(* Inbound archives.                                                       *)
(***************************************************************************)
Member(name, isfile, content) ==
    [name |-> name, isfile |-> isfile, content |-> content,
     damage |-> "none"]

\* A member whose header block is damaged in the stream (its checksum does
\* not match): TarFile.next() fails on it with InvalidHeaderError.
Damaged(member) == [member EXCEPT !.damage = "header"]

\* Members of the archives the pipeline is run on: two documents whose names
\* differ in the extension only, and one document for each other behaviour of
\* the conversion capability.
EntrySet ==
    { Member(<< "a", ".", "p", "d", "f" >>, TRUE, "x"),
      Member(<< "a", ".", "d", "o", "c", "x" >>, TRUE, "y"),
      Member(<< "b", ".", "t", "x", "t" >>, TRUE, "blank"),
      Member(<< "c", ".", "p", "d", "f" >>, TRUE, "slow"),
      Member(<< "d", ".", "p", "d", "f" >>, TRUE, "boom"),
      Member(<< "e", ".", "p", "d", "f" >>, TRUE, "bad"),
      Member(<< "f", ".", "p", "d", "f" >>, TRUE, "late") }

\* Members whose names exercise the validation of phase_extract: names that
\* climb out of the extraction root from their first or from a later segment,
\* an absolute name, junk and media names, two names that normalize to the same
\* path, a directory; and a document that crashes its worker and one whose
\* conversion takes about as long as the alarm.
NameEntrySet ==
    { Member(<< "a", "/", ".", ".", "/", ".", ".", "/",
                "e", "v", "i", "l", ".", "t", "x", "t" >>, TRUE, "x"),
      Member(<< ".", ".", "/", "e", "v", "i", "l", ".", "t", "x", "t" >>,
             TRUE, "x"),
      Member(<< "/", "e", "v", "i", "l", ".", "t", "x", "t" >>, TRUE, "x"),
      Member(<< "a", ".", "p", "d", "f" >>, TRUE, "x"),
      Member(<< ".", "/", "a", ".", "p", "d", "f" >>, TRUE, "y"),
      Member(<< "b", ".", "D", "S", "_", "S", "t", "o", "r", "e" >>, TRUE, "x"),
      Member(<< "c", ".", "m", "p", "4" >>, TRUE, "x"),
      Member(<< "a" >>, FALSE, "x"),
      Member(<< "d", ".", "p", "d", "f" >>, TRUE, "boom"),
      Member(<< "f", ".", "p", "d", "f" >>, TRUE, "late") }

\* Members that exercise the error handling: a member with a damaged header,
\* and conversions that end in an error of two lines, an error with a long
\* message, a TimeoutError of the capability's own, a crash of the worker, and
\* one that takes about as long as the alarm.
ErrorEntrySet ==
    { Damaged(Member(<< "b", ".", "p", "d", "f" >>, TRUE, "x")),
      Member(<< "e", ".", "p", "d", "f" >>, TRUE, "bad"),
      Member(<< "g", ".", "p", "d", "f" >>, TRUE, "verbose"),
      Member(<< "h", ".", "p", "d", "f" >>, TRUE, "tmo"),
      Member(<< "d", ".", "p", "d", "f" >>, TRUE, "boom"),
      Member(<< "f", ".", "p", "d", "f" >>, TRUE, "late") }

\* The archives of at most MaxEntries members drawn from a set of members; the
\* modification time of a member is its position, so that every member's is
\* its own.
Archives(members) ==
    UNION { { [i \in 1..n |->
                 [name |-> f[i].name, isfile |-> f[i].isfile,
                  content |-> f[i].content, damage |-> f[i].damage,
                  mtime |-> i]] :
              f \in [1..n -> members] } : n \in 0..MaxEntries }

\* Values of os.cpu_count(): 0 stands for None (undetermined).
CpuCounts == {0, 2, 16}

(***************************************************************************)
(* State.                                                                  *)
(***************************************************************************)
VARIABLES
    inbound,    \* the archive on standard input: a sequence of members
    cpu,        \* what os.cpu_count() returns
    phase,      \* "extract", "transform", "emit", "done" (phase_emit has
                \* returned), "exited" (the process has terminated)
    pos,        \* members of inbound that phase_extract has consumed
    scratch,    \* the regular files written so far: scratch path -> content
    tasks,      \* phase_extract's list of FileTask
    n_jobs,     \* the pool's worker count (0 before phase_transform)
    work,       \* per task, the state of its call of convert_task_isolated
    aborting,   \* a worker process died: the pool is broken
    results,    \* phase_transform's list of ConvertResult
    archive,    \* the outbound archive: a sequence of entries
    temp_dir,   \* the TemporaryDirectory of run_pipeline exists
    output_stream,  \* standard output: "open", or "closed" by its reader
    exit_status,\* "running"; "return 0", "return 1", "return 130" (main's
                \* return value, the exit code); "SIGPIPE" (killed by it)
    src,        \* flatten-dir.py: the source, its kind and its files
    files,      \* flatten-dir.py: the files the generator has yet to yield
    dest,       \* flatten-dir.py: the destination, file name -> the
                \* relative path of the source file it is a copy of
    count,      \* flatten-dir.py: the files copied
    flatten_pc, \* flatten-dir.py: "start", "copy", "done", "exit 1"; "idle"
                \* when the program is not run
    start_url,  \* urls-under.py: the argument of list_urls
    visited,    \* urls-under.py: the set of URLs seen
    queue,      \* urls-under.py: the deque of URLs to fetch
    printed,    \* urls-under.py: the lines written to standard output
    crawl_pc    \* urls-under.py: "start", "loop", "done"; "idle" when the
                \* program is not run

\* The process and its surroundings.
process == << temp_dir, output_stream, exit_status >>

\* The state of flatten-dir.py.
flatten == << src, files, dest, count, flatten_pc >>

\* The state of markthesedown.py.
pipeline ==
    << inbound, cpu, phase, pos, scratch, tasks, n_jobs, work, aborting,
       results, archive, temp_dir, output_stream, exit_status >>

\* The state of urls-under.py.
crawl == << start_url, visited, queue, printed, crawl_pc >>

vars == << pipeline, flatten, crawl >>

\* A URL string, by the parts urlparse finds in it; frag is "" for a URL
\* without '#'.
Url(netloc, path, frag) == [netloc |-> netloc, path |-> path, frag |-> frag]

\* urls-under.py is not run.
CrawlIdle ==
    /\ start_url = Url("", << >>, "")
    /\ visited = {}
    /\ queue = << >>
    /\ printed = << >>
    /\ crawl_pc = "idle"

\* flatten-dir.py is not run.
FlattenIdle ==
    /\ src = [kind |-> "missing", files |-> {}]
    /\ files = {}
    /\ dest = << >>
    /\ count = 0
    /\ flatten_pc = "idle"

\* A call of convert_task_isolated that has not started.
\*   pc:      "queued", "convert" (in md.convert, alarm armed), "finally"
\*            (about to run signal.alarm(0)), "returned", "crashed" (its
\*            worker process died), "killed" (its worker was killed with
\*            the broken pool)
\*   alarm:   a SIGALRM armed by this call is pending
\*   fired:   the SIGALRM was delivered and timeout_handler ran
\*   raised:  the exception leaving the inner try (NoException when it
\*            returns)
\*   text:    result.text_content, once md.convert has returned it
\*   result:  the ConvertResult the call returns
\*   collected: the parent's loop has received the result from the generator
Queued ==
    [pc |-> "queued", alarm |-> FALSE, fired |-> FALSE,
     raised |-> NoException,
     text |-> "", result |-> NoResult, collected |-> FALSE]

InitWith(members) ==
    /\ inbound \in Archives(members)
    /\ cpu \in CpuCounts
    /\ phase = "extract"
    /\ pos = 0
    /\ scratch = << >>
    /\ tasks = << >>
    /\ n_jobs = 0
    /\ work = << >>
    /\ aborting = FALSE
    /\ results = << >>
    /\ archive = << >>
    /\ temp_dir = TRUE
    /\ output_stream = "open"
    /\ exit_status = "running"
    /\ FlattenIdle
    /\ CrawlIdle

Init == InitWith(EntrySet)

(***************************************************************************)
(* The ends of the process.                                                *)
(***************************************************************************)
\* The files that are left when the scratch directory is removed: those
\* written outside of it.
Outside(fs) ==
    LET left == {q \in DOMAIN fs : ~Inside(q)}
    IN  IF left = {} THEN << >> ELSE [q \in left |-> fs[q]]

\* The process terminates with `status`; `cleaned` when the with block of
\* run_pipeline is left on the way (TemporaryDirectory.__exit__ removes the
\* directory).  The lists of the process are gone with it; its input, what it
\* wrote to standard output and the file system remain.
Terminate(status, cleaned) ==
    /\ phase' = "exited"
    /\ exit_status' = status
    /\ temp_dir' = ~cleaned
    /\ scratch' = IF cleaned THEN Outside(scratch) ELSE scratch
    /\ pos' = 0
    /\ tasks' = << >>
    /\ n_jobs' = 0
    /\ work' = << >>
    /\ aborting' = FALSE
    /\ results' = << >>
    /\ UNCHANGED << crawl, flatten, inbound, cpu, archive >>

\* The operator interrupts the run (SIGINT): KeyboardInterrupt is raised in
\* the main thread, in whatever phase it is, and caught by main.
Interrupt ==
    /\ phase \in {"extract", "transform", "emit"}
    /\ Terminate("return 130", TRUE)
    /\ UNCHANGED output_stream

\* run_pipeline returns from phase_emit and leaves its with block; main
\* returns 0.
Exit ==
    /\ phase = "done"
    /\ Terminate("return 0", TRUE)
    /\ UNCHANGED output_stream

(***************************************************************************)
(* Phase 1: phase_extract.                                                 *)
(***************************************************************************)
\* dest_path of a member.
DestPath(name) == JoinWorkDir(normpath(name))

\* The member is skipped by the `continue` of the loop.
Rejected(member) == ~member.isfile \/ ~is_valid_member(member.name)

\* The body of the loop for one member: the scratch files and the task list
\* after it.  A member that is rejected, or whose extraction raises (logged as
\* [Extract Error]), changes neither.
ExtractOne(member, fs, ts) ==
    LET dest_path == DestPath(member.name)
    IN  IF ~Rejected(member)
           /\ CanMkdirParents(fs, dest_path)
           /\ CanWrite(fs, dest_path)
        THEN [scratch |-> WriteFile(fs, dest_path, member.content),
              tasks |-> Append(ts,
                            FileTask(dest_path, member.name, member.mtime))]
        ELSE [scratch |-> fs, tasks |-> ts]

\* One iteration of `for member in tar`.
\* One iteration of `for member in tar`: TarFile.next() reads the next
\* header, then the body of the loop runs.  A damaged header of the first
\* member makes tarfile.open raise ReadError, which no phase catches: the
\* with block of run_pipeline is left and main returns 1.  A damaged header
\* further on is taken for the end of the archive: the iteration stops and
\* the members behind it are never read.
ExtractMember ==
    /\ phase = "extract"
    /\ pos < Len(inbound)
    /\ LET member == inbound[pos + 1]
           after == ExtractOne(member, scratch, tasks)
       IN  IF member.damage = "header" /\ pos = 0
           THEN /\ Terminate("return 1", TRUE)
                /\ UNCHANGED output_stream
           ELSE IF member.damage = "header"
           THEN /\ pos' = Len(inbound)
                /\ UNCHANGED << crawl, flatten, process, inbound, cpu, phase, scratch, tasks,
                                n_jobs, work, aborting, results, archive >>
           ELSE /\ scratch' = after.scratch
                /\ tasks' = after.tasks
                /\ pos' = pos + 1
                /\ UNCHANGED << crawl, flatten, process, inbound, cpu, phase, n_jobs, work,
                                aborting, results, archive >>

(***************************************************************************)
(* Phase 2: phase_transform and the workers' convert_task_isolated.        *)
(***************************************************************************)
\* n_jobs = min(os.cpu_count() or 1, 12)
NJobs(cpu_count) ==
    LET c == IF cpu_count = 0 THEN 1 ELSE cpu_count
    IN  IF c < 12 THEN c ELSE 12

\* The tasks a worker process is executing.
Running == {t \in DOMAIN work : work[t].pc \in {"convert", "finally"}}

\* Mutant of FreeSlot: the pool starts one task more than it has workers.
FreeSlotOffByOne(active, n) == active <= n

\* The pool of n workers has an idle worker when `active` tasks are executing.
FreeSlot(active, n) == active < n

\* output_path of a task.
OutputPath(task) == with_suffix(task.path, MdTmp)

\* The ConvertResult of a call whose inner try block ended by raising `raised`
\* (NoException when it returned `result`): the two except clauses.
Outcome(task, raised, result) ==
    CASE raised = NoException -> result
      [] raised.type = TimeoutErrorName ->
            ConvertFailed(task.original_name, TimeoutText)
      [] OTHER ->
            LET msg == Truncate(FirstLine(raised.msg), ErrorLimit)
            IN  ConvertFailed(task.original_name,
                              raised.type \o << ":", " " >> \o msg)

\* results.sort(key=lambda r: r.original_name): a stable sort.
RECURSIVE InsertByName(_, _)
InsertByName(sorted, r) ==
    IF sorted = << >> THEN << r >>
    ELSE IF StrLess(r.original_name, Head(sorted).original_name)
    THEN << r >> \o sorted
    ELSE << Head(sorted) >> \o InsertByName(Tail(sorted), r)

\* Mutant of SortByName: the results stay in the order of their collection.
SortByNameSkipped(rs) == rs

RECURSIVE SortByName(_)
SortByName(rs) ==
    IF rs = << >> THEN << >>
    ELSE InsertByName(SortByName(Take(rs, Len(rs) - 1)), rs[Len(rs)])

\* Mutant of ExtractionOver: phase_extract returns after its first member.
ExtractionOverEarly == pos >= 1 \/ pos = Len(inbound)

\* `for member in tar` is exhausted.
ExtractionOver == pos = Len(inbound)

\* phase_extract has read the archive to its end and returns; phase_transform
\* computes n_jobs and hands every task to Parallel.
StartTransform ==
    /\ phase = "extract"
    /\ ExtractionOver
    /\ phase' = "transform"
    /\ n_jobs' = NJobs(cpu)
    /\ work' = [t \in 1..Len(tasks) |-> Queued]
    /\ UNCHANGED << crawl, flatten, process, inbound, cpu, pos, scratch, tasks, aborting,
                    results, archive >>

\* An idle worker takes the next task of the queue and runs
\* convert_task_isolated up to the arming of the alarm.
Dispatch(t) ==
    /\ phase = "transform"
    /\ ~aborting
    /\ work[t].pc = "queued"
    /\ \A u \in 1..(t - 1) : work[u].pc # "queued"
    /\ FreeSlot(Cardinality(Running), n_jobs)
    /\ work' = [work EXCEPT ![t].pc = "convert", ![t].alarm = TRUE]
    /\ UNCHANGED << crawl, flatten, process, inbound, cpu, phase, pos, scratch, tasks, n_jobs,
                    aborting, results, archive >>

\* The inner try block when md.convert returns or raises: the exception that
\* leaves it ("" for none), result.text_content, the value it returns and the
\* scratch files after it.
TryBlock(task, fs) ==
    LET content == fs[task.path]
        beh == Behaviour(content)
        output_path == OutputPath(task)
        none == [raised |-> NoException, text |-> "", result |-> NoResult,
                 scratch |-> fs]
    IN  IF beh = "raise"
        THEN [none EXCEPT !.raised = RaisedBy(content)]
        ELSE IF beh = "timeout_error"
        THEN [none EXCEPT !.raised = RaisedBy(content)]
        ELSE IF strip(text_content(content)) = ""
        THEN [none EXCEPT
                 !.text = text_content(content),
                 !.result = ConvertSkipped(task.original_name,
                                NoTextReason)]
        ELSE IF CanWrite(fs, output_path)
        THEN [none EXCEPT
                 !.text = text_content(content),
                 !.result = ConvertSuccess(task.original_name, output_path,
                                task.mtime),
                 !.scratch = WriteFile(fs, output_path,
                                 text_content(content))]
        ELSE [none EXCEPT
                 !.text = text_content(content),
                 !.raised = Exception(IsADirectoryErrorName,
                                      output_path[Len(output_path)])]

\* md.convert returns or raises, and the inner try block runs to its end.
Convert(t) ==
    /\ phase = "transform"
    /\ work[t].pc = "convert"
    /\ Behaviour(scratch[tasks[t].path]) \in {"text", "raise", "timeout_error"}
    /\ LET after == TryBlock(tasks[t], scratch)
       IN  /\ work' = [work EXCEPT ![t].pc = "finally",
                                   ![t].raised = after.raised,
                                   ![t].text = after.text,
                                   ![t].result = after.result]
           /\ scratch' = after.scratch
    /\ UNCHANGED << crawl, flatten, process, inbound, cpu, phase, pos, tasks, n_jobs, aborting,
                    results, archive >>

\* The 180 seconds are over while the alarm is still armed (the conversion is
\* no fast one): timeout_handler raises
\* TimeoutError in the worker.  In md.convert it ends the inner try block; in
\* the finally block, before signal.alarm(0), it replaces what was being
\* returned or raised.
AlarmFires(t) ==
    /\ phase = "transform"
    /\ work[t].pc \in {"convert", "finally"}
    /\ work[t].alarm
    /\ LET d == Duration(scratch[tasks[t].path])
       IN  \/ work[t].pc = "convert" /\ d \in {"about180", "forever"}
           \/ work[t].pc = "finally" /\ d = "about180"
    /\ IF work[t].pc = "convert"
       THEN work' = [work EXCEPT ![t].pc = "finally", ![t].alarm = FALSE,
                                 ![t].fired = TRUE,
                                 ![t].raised = timeout_handler]
       ELSE work' = [work EXCEPT
                ![t].pc = "returned", ![t].alarm = FALSE, ![t].fired = TRUE,
                ![t].raised = timeout_handler,
                ![t].result = Outcome(tasks[t], timeout_handler, NoResult)]
    /\ UNCHANGED << crawl, flatten, process, inbound, cpu, phase, pos, scratch, tasks, n_jobs,
                    aborting, results, archive >>

\* Mutant of Finally: the finally block does not call signal.alarm(0), the
\* alarm stays armed when the call returns.
FinallyAlarmLeft(t) ==
    /\ phase = "transform"
    /\ work[t].pc = "finally"
    /\ work' = [work EXCEPT
           ![t].pc = "returned",
           ![t].result = Outcome(tasks[t], work[t].raised, work[t].result)]
    /\ UNCHANGED << crawl, flatten, process, inbound, cpu, phase, pos, scratch,
                    tasks, n_jobs, aborting, results, archive >>

\* The finally block disables the alarm; the call returns its result, or an
\* except clause turns the exception into a ConvertFailed.
Finally(t) ==
    /\ phase = "transform"
    /\ work[t].pc = "finally"
    /\ work' = [work EXCEPT
           ![t].pc = "returned", ![t].alarm = FALSE,
           ![t].result = Outcome(tasks[t], work[t].raised, work[t].result)]
    /\ UNCHANGED << crawl, flatten, process, inbound, cpu, phase, pos, scratch, tasks, n_jobs,
                    aborting, results, archive >>

\* The worker process dies in md.convert.  loky marks the pool broken
\* (TerminatedWorkerError) and kills the other workers.
Crash(t) ==
    /\ phase = "transform"
    /\ work[t].pc = "convert"
    /\ Behaviour(scratch[tasks[t].path]) = "crash"
    /\ work' = [u \in DOMAIN work |->
                   IF u = t THEN [work[u] EXCEPT !.pc = "crashed"]
                   ELSE IF u \in Running THEN [work[u] EXCEPT !.pc = "killed"]
                   ELSE work[u]]
    /\ aborting' = TRUE
    /\ UNCHANGED << crawl, flatten, process, inbound, cpu, phase, pos, scratch, tasks, n_jobs,
                    results, archive >>

\* One iteration of `for result in generator`: the generator yields the
\* results in the order of the tasks, each once its call has returned.
Collect ==
    /\ phase = "transform"
    /\ ~aborting
    /\ Len(results) < Len(tasks)
    /\ LET t == Len(results) + 1
       IN  /\ work[t].pc = "returned"
           /\ results' = Append(results, work[t].result)
           /\ work' = [work EXCEPT ![t].collected = TRUE]
    /\ UNCHANGED << crawl, flatten, process, inbound, cpu, phase, pos, scratch, tasks, n_jobs,
                    aborting, archive >>

\* The loop ends, by exhaustion of the generator or by the exception that a
\* broken pool makes it raise (caught by `except Exception`); the results
\* collected so far are sorted and returned.
FinishTransform ==
    /\ phase = "transform"
    /\ aborting \/ Len(results) = Len(tasks)
    /\ results' = SortByName(results)
    /\ phase' = "emit"
    /\ UNCHANGED << crawl, flatten, process, inbound, cpu, pos, scratch, tasks, n_jobs, work,
                    aborting, archive >>

(***************************************************************************)
(* Phase 3: phase_emit.                                                    *)
(***************************************************************************)
\* The entries tar.addfile appends for a list of results; a ConvertSuccess
\* whose content_path cannot be read is a [Pack Error] and adds none.
RECURSIVE Pack(_, _)
Pack(rs, fs) ==
    IF rs = << >> THEN << >>
    ELSE LET res == Head(rs)
         IN  (IF res.kind = "Success" /\ res.content_path \in DOMAIN fs
              THEN << [name |-> md_output_name(res.original_name),
                       mtime |-> res.mtime,
                       content |-> fs[res.content_path]] >>
              ELSE << >>) \o Pack(Tail(rs), fs)

\* phase_emit has built output.tar and copies it to a standard output whose
\* reader has closed it.  main has set SIGPIPE to SIG_DFL, so the write does
\* not raise BrokenPipeError: the signal kills the process, and neither the
\* with block of run_pipeline nor an except clause of main runs.
BrokenPipe ==
    /\ phase = "emit"
    /\ output_stream' = "closed"
    /\ Terminate("SIGPIPE", FALSE)

\* phase_emit builds output.tar and streams it to standard output.
Emit ==
    /\ phase = "emit"
    /\ archive' = Pack(results, scratch)
    /\ phase' = "done"
    /\ UNCHANGED << crawl, flatten, process, inbound, cpu, pos, scratch, tasks, n_jobs, work,
                    aborting, results >>

(***************************************************************************)
(* Specifications.                                                         *)
(***************************************************************************)
Next ==
    \/ ExtractMember
    \/ StartTransform
    \/ \E t \in DOMAIN work : Dispatch(t)
    \/ \E t \in DOMAIN work : Convert(t)
    \/ \E t \in DOMAIN work : AlarmFires(t)
    \/ \E t \in DOMAIN work : Finally(t)
    \/ \E t \in DOMAIN work : Crash(t)
    \/ Collect
    \/ FinishTransform
    \/ Emit
    \/ BrokenPipe
    \/ Exit
    \/ Interrupt

Spec == Init /\ [][Next]_vars

\* The pipeline run on the archives whose member names exercise phase_extract.
InitNames == InitWith(NameEntrySet)

SpecNames == InitNames /\ [][Next]_vars

\* The pipeline run on the archives whose members exercise the error handling
\* of convert_task_isolated.
InitErrors == InitWith(ErrorEntrySet)

SpecErrors == InitErrors /\ [][Next]_vars

(***************************************************************************)
(* flatten-dir.py: flatten_copy.                                           *)
(***************************************************************************)
\* str.replace(os.sep, '__') on a relative path.
RECURSIVE flat_name(_)
flat_name(rel_path) ==
    IF rel_path = << >> THEN << >>
    ELSE IF Head(rel_path) = "/"
    THEN << "_", "_" >> \o flat_name(Tail(rel_path))
    ELSE << Head(rel_path) >> \o flat_name(Tail(rel_path))

\* Relative paths of files under the source directory: 'a/b', 'a__b', 'a/c',
\* 'd', and the hidden files '.h' and 'a/.h'.
RelPaths ==
    { << "a", "/", "b" >>, << "a", "_", "_", "b" >>, << "a", "/", "c" >>,
      << "d" >>, << ".", "h" >>, << "a", "/", ".", "h" >> }

\* The sources flatten-dir.py is run on: a path that does not exist, a regular
\* file, and the directories of at most MaxFiles files.
Sources ==
    { [kind |-> "missing", files |-> {}], [kind |-> "file", files |-> {}] }
    \cup { [kind |-> "dir", files |-> F] :
             F \in {G \in SUBSET RelPaths : Cardinality(G) <= MaxFiles} }

\* markthesedown.py is not run.
PipelineIdle ==
    /\ inbound = << >>
    /\ cpu = 0
    /\ phase = "idle"
    /\ pos = 0
    /\ scratch = << >>
    /\ tasks = << >>
    /\ n_jobs = 0
    /\ work = << >>
    /\ aborting = FALSE
    /\ results = << >>
    /\ archive = << >>
    /\ temp_dir = FALSE
    /\ output_stream = "open"
    /\ exit_status = "idle"

InitFlatten ==
    /\ PipelineIdle
    /\ CrawlIdle
    /\ src \in Sources
    /\ files = {}
    /\ dest = << >>
    /\ count = 0
    /\ flatten_pc = "start"

\* The checks of the source, dest.mkdir, and the generator of the files to
\* copy: the regular files under src whose name does not start with '.'.
FlattenStart ==
    /\ flatten_pc = "start"
    /\ IF src.kind # "dir"
       THEN /\ flatten_pc' = "exit 1"
            /\ UNCHANGED files
       ELSE /\ flatten_pc' = "copy"
            /\ files' = {p \in src.files :
                             ~StartsWith(basename(p), << "." >>)}
    /\ UNCHANGED << crawl, pipeline, src, dest, count >>

\* One iteration of `for p in files`, in the order rglob yields the files:
\* shutil.copy2 writes the target, replacing a file of that name.
CopyFile ==
    /\ flatten_pc = "copy"
    /\ \E p \in files :
           /\ dest' = (flat_name(p) :> p) @@ dest
           /\ files' = files \ {p}
    /\ count' = count + 1
    /\ UNCHANGED << crawl, pipeline, src, flatten_pc >>

\* The generator is exhausted; the summary is printed.
FlattenDone ==
    /\ flatten_pc = "copy"
    /\ files = {}
    /\ flatten_pc' = "done"
    /\ UNCHANGED << crawl, pipeline, src, files, dest, count >>

NextFlatten ==
    \/ FlattenStart
    \/ CopyFile
    \/ FlattenDone

SpecFlatten == InitFlatten /\ [][NextFlatten]_vars

(***************************************************************************)
(* urls-under.py: list_urls.                                               *)
(***************************************************************************)
\* str.endswith('/') of a path.
EndsWithSlash(path) == path # << >> /\ path[Len(path)] = "/"

\* base_netloc
BaseNetloc(start) == start.netloc

\* base_path: the path of the start URL, with a '/' at its end.
BasePath(start) ==
    IF EndsWithSlash(start.path) THEN start.path
    ELSE start.path \o << "/" >>

\* An href of a page: an absolute URL, or a relative reference (a file name)
\* with netloc "".
Href(netloc, path, frag) == Url(netloc, path, frag)

\* urljoin(current_url, href): an absolute href is the URL itself; a relative
\* one replaces what follows the last '/' of the path of current_url.
urljoin(current_url, href) ==
    IF href.netloc # "" THEN href
    ELSE Url(current_url.netloc,
             Take(current_url.path, RFind(current_url.path, "/"))
                 \o href.path,
             href.frag)

\* full_url.split('#')[0]
StripFragment(url) == [url EXCEPT !.frag = ""]

\* Mutant of InScope: the domain of the link is not compared.
InScopeAnyDomain(parsed_url, start) ==
    StartsWith(parsed_url.path, BasePath(start))

\* Conditions 2 and 3 of the filter: same domain, path under base_path.
InScope(parsed_url, start) ==
    /\ parsed_url.netloc = BaseNetloc(start)
    /\ StartsWith(parsed_url.path, BasePath(start))

\* The inner loop over the links of a page: the visited set and the queue
\* after it.
RECURSIVE FollowLinks(_, _, _, _, _)
FollowLinks(links, current_url, start, seen, q) ==
    IF links = << >> THEN [visited |-> seen, queue |-> q]
    ELSE LET parsed_url == urljoin(current_url, Head(links))
             full_url == StripFragment(parsed_url)
         IN  IF full_url \notin seen /\ InScope(parsed_url, start)
             THEN FollowLinks(Tail(links), current_url, start,
                              seen \cup {full_url}, Append(q, full_url))
             ELSE FollowLinks(Tail(links), current_url, start, seen, q)

\* The start URLs: 'http://h/d', 'http://h/d/' and 'http://h/d/a#s'.
StartUrls ==
    { Url("h", << "/", "d" >>, ""),
      Url("h", << "/", "d", "/" >>, ""),
      Url("h", << "/", "d", "/", "a" >>, "s") }

\* The hrefs of the pages: pages under the start URL, with and without a
\* fragment; the start URLs themselves; a path that only begins like the base
\* path ('/dx/a'); the root; another domain; relative references.
Hrefs ==
    { Href("h", << "/", "d", "/", "a" >>, ""),
      Href("h", << "/", "d", "/", "a" >>, "s"),
      Href("h", << "/", "d", "/", "b" >>, ""),
      Href("h", << "/", "d" >>, ""),
      Href("h", << "/", "d", "/" >>, ""),
      Href("h", << "/", "d", "x", "/", "a" >>, ""),
      Href("h", << "/" >>, ""),
      Href("o", << "/", "d", "/", "a" >>, ""),
      Href("", << "b" >>, ""),
      Href("", << "c" >>, "s") }

\* What requests.get gives for a URL: an HTML page with at most MaxLinks
\* links, or no page to parse (a status other than 200, a Content-Type other
\* than HTML, an exception).
Responses ==
    { [kind |-> k, links |-> << >>] : k \in {"not200", "nothtml", "error"} }
    \cup UNION { { [kind |-> "html", links |-> l] : l \in [1..n -> Hrefs] } :
                 n \in 0..MaxLinks }

InitCrawl ==
    /\ PipelineIdle
    /\ FlattenIdle
    /\ start_url \in StartUrls
    /\ visited = {}
    /\ queue = << >>
    /\ printed = << >>
    /\ crawl_pc = "start"

\* list_urls up to its loop: the start URL is visited and queued.
CrawlStart ==
    /\ crawl_pc = "start"
    /\ visited' = {start_url}
    /\ queue' = << start_url >>
    /\ crawl_pc' = "loop"
    /\ UNCHANGED << pipeline, flatten, start_url, printed >>

\* One iteration of `while queue`: the first URL of the queue is printed and
\* fetched, and the links of its page that pass the filter are queued.
CrawlStep ==
    /\ crawl_pc = "loop"
    /\ queue # << >>
    /\ LET current_url == Head(queue)
       IN  /\ printed' = Append(printed, current_url)
           /\ \E response \in Responses :
                  LET after == FollowLinks(response.links, current_url,
                                           start_url, visited, Tail(queue))
                  IN  /\ visited' = after.visited
                      /\ queue' = after.queue
    /\ UNCHANGED << pipeline, flatten, start_url, crawl_pc >>

\* The queue is empty: the loop ends and list_urls returns.
CrawlDone ==
    /\ crawl_pc = "loop"
    /\ queue = << >>
    /\ crawl_pc' = "done"
    /\ UNCHANGED << pipeline, flatten, start_url, visited, queue, printed >>

NextCrawl ==
    \/ CrawlStart
    \/ CrawlStep
    \/ CrawlDone

\* The interpreter runs the loop on: a step that can be taken is taken.
SpecCrawl == InitCrawl /\ [][NextCrawl]_vars /\ WF_vars(NextCrawl)

(***************************************************************************)
(* Properties.                                                             *)
(***************************************************************************)
IsSuccess(r) == r.kind = "Success"

\* How many records of a sequence carry the original name.
CountName(seq, name) ==
    Cardinality({i \in DOMAIN seq : seq[i].original_name = name})

\* phase_transform has returned.
Transformed == phase \in {"emit", "done"}

\* C1: the outcomes phase_transform returns are in one-to-one correspondence
\* with the tasks: as many outcomes as tasks, and every original name as often
\* among the outcomes as among the tasks, also when a worker times out, raises
\* or crashes.
C1_OneOutcomePerTask ==
    Transformed =>
        /\ Len(results) = Len(tasks)
        /\ \A t \in DOMAIN tasks :
               CountName(results, tasks[t].original_name)
                   = CountName(tasks, tasks[t].original_name)

\* C2: when the worker process of a task terminates abnormally,
\* phase_transform returns a ConvertFailed for that task and an outcome for
\* every other task.
C2_CrashBecomesFailed ==
    Transformed =>
        \A t \in DOMAIN work :
            work[t].pc = "crashed" =>
                /\ \E i \in DOMAIN results :
                       /\ results[i].kind = "Failed"
                       /\ results[i].original_name = tasks[t].original_name
                /\ \A u \in DOMAIN tasks \ {t} :
                       \E i \in DOMAIN results :
                           results[i].original_name = tasks[u].original_name

\* C3: no file is written outside the scratch root: every path phase_extract
\* has written (the path of a task) lies inside work_dir, whatever the names
\* of the archive's members.
C3_ScratchRootContainment ==
    \A t \in DOMAIN tasks : Inside(tasks[t].path)

\* C4: every task handed to the pool eventually has its outcome collected by
\* phase_transform's loop.  The run ends in phase "done", where no step is
\* enabled any more, so under any fair scheduling the claim is that no run
\* ends while a task's outcome is uncollected.
C4_EveryTaskCollected ==
    phase = "done" => \A t \in DOMAIN work : work[t].collected

\* C4, in the runs where no worker process dies: the alarm ends every
\* conversion that does not end by itself, and every outcome is collected.
C4_CollectedUnlessPoolBroken ==
    (phase = "done" /\ ~aborting) => \A t \in DOMAIN work : work[t].collected

\* The content of the file a task converts.
Input(t) == scratch[tasks[t].path]

\* C5: a task whose conversion never returns has the outcome
\* Failed("Timeout (180s)") among the results, and every task whose call
\* returned a ConvertSuccess has its entry in the outbound archive.
C5_HangIsFailedOthersEmitted ==
    phase = "done" =>
        \A t \in DOMAIN tasks :
            /\ Duration(Input(t)) = "forever" =>
                   \E i \in DOMAIN results :
                       results[i] = ConvertFailed(tasks[t].original_name,
                                                  TimeoutText)
            /\ (work[t].pc = "returned" /\ IsSuccess(work[t].result)) =>
                   \E k \in DOMAIN archive :
                       /\ archive[k].name
                              = md_output_name(tasks[t].original_name)
                       /\ archive[k].mtime = tasks[t].mtime

\* C5, in the runs where no worker process dies (the scenario of the claim:
\* two workers, three tasks, the second hangs).
C5_HangIsFailedUnlessPoolBroken ==
    ~aborting => C5_HangIsFailedOthersEmitted

\* C6: while phase_transform runs, the worker count is min(CPU count, 12),
\* with 1 for an undetermined CPU count, and no more tasks than that are being
\* converted at once.
C6_BoundedParallelism ==
    phase = "transform" =>
        LET c == IF cpu = 0 THEN 1 ELSE cpu
            bound == IF c <= 12 THEN c ELSE 12
        IN  /\ n_jobs = bound
            /\ Cardinality(Running) <= bound

\* C6 witness: both workers of a pool of two are converting while a third task
\* waits in the queue.
C6_Witness ==
    /\ phase = "transform"
    /\ n_jobs = 2
    /\ Cardinality(Running) = 2
    /\ \E t \in DOMAIN work : work[t].pc = "queued"

\* The scratch paths a worker touches for a task: its extracted input file and
\* its converted-text output file.
Touched(t) == {tasks[t].path, OutputPath(tasks[t])}

\* C7: the scratch paths touched for two distinct tasks are disjoint.
C7_DisjointScratchPaths ==
    \A t, u \in DOMAIN tasks : t # u => Touched(t) \cap Touched(u) = {}

\* The ConvertSuccess outcomes phase_emit is given, in its order.
Successes == SelectSeq(results, IsSuccess)

\* C8: the outbound archive holds one entry per ConvertSuccess and no other;
\* the entry has the task's original name with the extension replaced by
\* ".md", the task's modification time, and the text extracted for that task.
C8_EntryPerSuccess ==
    phase = "done" =>
        /\ Len(archive) = Len(Successes)
        /\ \A k \in DOMAIN archive :
               \E t \in DOMAIN tasks :
                   /\ work[t].result = Successes[k]
                   /\ archive[k].name = md_output_name(tasks[t].original_name)
                   /\ archive[k].mtime = tasks[t].mtime
                   /\ archive[k].content = work[t].text

\* C9: the entries of the outbound archive are those of the ConvertSuccess
\* outcomes, in ascending order of the tasks' original names.
C9_ArchiveSortedByOriginalName ==
    phase = "done" =>
        /\ Len(archive) = Len(Successes)
        /\ \A k \in DOMAIN archive :
               archive[k].name = md_output_name(Successes[k].original_name)
        /\ \A j, k \in DOMAIN Successes :
               j < k => ~StrLess(Successes[k].original_name,
                                 Successes[j].original_name)

\* C9 witness: an archive of two entries or more whose tasks were extracted,
\* and handed to the pool, in another order than that of their names.
C9_Witness ==
    /\ phase = "done"
    /\ Len(archive) >= 2
    /\ \E t, u \in DOMAIN tasks :
           /\ t < u
           /\ StrLess(tasks[u].original_name, tasks[t].original_name)
           /\ work[t].collected /\ IsSuccess(work[t].result)
           /\ work[u].collected /\ IsSuccess(work[u].result)

\* phase_extract over a whole archive.
RECURSIVE ExtractAll(_, _, _)
ExtractAll(members, fs, ts) ==
    IF members = << >> THEN [scratch |-> fs, tasks |-> ts]
    ELSE LET after == ExtractOne(Head(members), fs, ts)
         IN  ExtractAll(Tail(members), after.scratch, after.tasks)

\* The run of a pool whose workers convert the tasks one after the other, in
\* the order of the task list; a conversion that never returns is ended by the
\* alarm.
RECURSIVE ConvertAll(_, _, _)
ConvertAll(ts, fs, rs) ==
    IF ts = << >> THEN [scratch |-> fs, results |-> rs]
    ELSE LET task == Head(ts)
         IN  IF Duration(fs[task.path]) = "forever"
             THEN ConvertAll(Tail(ts), fs,
                      Append(rs, Outcome(task, timeout_handler, NoResult)))
             ELSE LET after == TryBlock(task, fs)
                  IN  ConvertAll(Tail(ts), after.scratch,
                          Append(rs, Outcome(task, after.raised,
                                             after.result)))

\* The outbound archive of that run, a function of the inbound archive.
SequentialArchive(members) ==
    LET extracted == ExtractAll(members, << >>, << >>)
        converted == ConvertAll(extracted.tasks, extracted.scratch, << >>)
    IN  Pack(SortByName(converted.results), converted.scratch)

\* The capability does the same with a file in every run: it crashes no
\* worker, and no conversion ends so close to the alarm that the timing of
\* the run decides which of the two comes first.
DeterministicCapability ==
    \A i \in DOMAIN inbound :
        /\ Behaviour(inbound[i].content) # "crash"
        /\ Duration(inbound[i].content) # "about180"

\* C10: with a deterministic capability the outbound archive is the same in
\* every run on the same inbound archive: whatever the interleaving of the
\* workers, it is the archive of the run that converts the tasks one after
\* the other.
C10_SameArchiveEveryRun ==
    (phase = "done" /\ DeterministicCapability) =>
        archive = SequentialArchive(inbound)

\* The entries of the scenario that are to be dropped: 'b.DS_Store' (junk),
\* '../evil.txt' (traversal) and 'c.mp4' (media).
ScenarioDropped ==
    { << "b", ".", "D", "S", "_", "S", "t", "o", "r", "e" >>,
      << ".", ".", "/", "e", "v", "i", "l", ".", "t", "x", "t" >>,
      << "c", ".", "m", "p", "4" >> }

\* C11: of the entries 'a.pdf', 'b.DS_Store', '../evil.txt' and 'c.mp4' only
\* 'a.pdf' becomes a task: no task of phase_extract has the name of one of the
\* three others, and every task comes from a regular file.
C11_OnlyConvertibleBecomeTasks ==
    \A t \in DOMAIN tasks :
        /\ tasks[t].original_name \notin ScenarioDropped
        /\ \E i \in 1..pos :
               /\ inbound[i].name = tasks[t].original_name
               /\ inbound[i].isfile

\* The call of convert_task_isolated for task t returns in this step.
Returns(t) ==
    /\ phase = "transform"
    /\ phase' = "transform"
    /\ work[t].pc # "returned"
    /\ work'[t].pc = "returned"

\* The kind of the returned outcome against what the capability did with the
\* task's file and whether the alarm fired: Success for text that is not
\* empty after strip, Skipped for empty or whitespace-only text, Failed for an
\* error or an expired deadline.
KindMatchesCapability(t) ==
    LET r == work'[t].result
        c == Input(t)
        expired == work'[t].fired
        returnsText == ~expired /\ Behaviour(c) = "text"
    IN  /\ r.kind \in {"Success", "Skipped", "Failed"}
        /\ r.original_name = tasks[t].original_name
        /\ r.kind = "Success"
               <=> (returnsText /\ strip(text_content(c)) # "")
        /\ r.kind = "Skipped"
               <=> (returnsText /\ strip(text_content(c)) = "")
        /\ r.kind = "Failed"
               <=> (expired \/ Behaviour(c) \in {"raise", "timeout_error"})

\* The inner try block of task t returns a ConvertSuccess in this step, and
\* the text was written to a scratch file that did not exist before.
WritesNewFile(t) ==
    (/\ phase = "transform"
     /\ phase' = "transform"
     /\ work[t].pc = "convert"
     /\ work'[t].pc = "finally"
     /\ work'[t].result.kind = "Success")
        => /\ OutputPath(tasks[t]) \notin DOMAIN scratch
           /\ OutputPath(tasks[t]) \in DOMAIN scratch'
           /\ scratch'[OutputPath(tasks[t])] = work'[t].text

\* C12: convert_task_isolated returns Success exactly when the capability
\* returns text that is non-empty after strip, having written the text to a
\* new scratch file; Skipped exactly when the text is empty or whitespace
\* only; Failed exactly when the capability raises or the 180 seconds
\* expire; every call that ends returns one of the three.
C12_OutcomeMatchesCapability ==
    [][\A t \in DOMAIN work :
          /\ Returns(t) => KindMatchesCapability(t)
          /\ WritesNewFile(t)]_vars

\* C12, without the newness of the scratch file: the kind of every returned
\* outcome is the one the claim gives.
C12_KindMatchesCapability ==
    [][\A t \in DOMAIN work : Returns(t) => KindMatchesCapability(t)]_vars

\* A character sequence holds no line break.
SingleLine(s) == \A i \in DOMAIN s : s[i] # "\n"

\* C13: the error description of every ConvertFailed that
\* convert_task_isolated returns is a single line of at most 200 characters,
\* whatever the type and the message of the error.
C13_FailedErrorIsShortLine ==
    \A t \in DOMAIN work :
        (work[t].pc = "returned" /\ work[t].result.kind = "Failed") =>
            /\ SingleLine(work[t].result.error)
            /\ Len(work[t].result.error) <= ErrorLimit

\* C13, for the message alone: the part of the description that follows the
\* type name and ": " is a single line of at most 200 characters.
C13_MessagePartIsShortLine ==
    \A t \in DOMAIN work :
        (/\ work[t].pc = "returned"
         /\ work[t].result.kind = "Failed"
         /\ work[t].result.error # TimeoutText) =>
            LET prefix == work[t].raised.type \o << ":", " " >>
                msg == Drop(work[t].result.error, Len(prefix))
            IN  /\ StartsWith(work[t].result.error, prefix)
                /\ SingleLine(msg)
                /\ Len(msg) <= ErrorLimit

\* C20: a call returns Failed("Timeout (180s)") only if its alarm fired
\* during the conversion; an error the capability raises before the deadline,
\* a TimeoutError of its own included, is not reported as "Timeout (180s)".
C20_TimeoutOnlyWhenAlarmFired ==
    \A t \in DOMAIN work :
        (/\ work[t].pc = "returned"
         /\ work[t].result = ConvertFailed(tasks[t].original_name,
                                           TimeoutText))
            => work[t].fired

\* C20, for the errors that are no TimeoutError: they are never reported as
\* "Timeout (180s)".
C20_OtherErrorsKeepTheirType ==
    \A t \in DOMAIN work :
        (/\ work[t].pc = "returned"
         /\ ~work[t].fired
         /\ work[t].raised # NoException
         /\ work[t].raised.type # TimeoutErrorName)
            => /\ work[t].result.kind = "Failed"
               /\ work[t].result.error # TimeoutText

\* tarfile.open could read the inbound archive: it is empty or the header of
\* its first member is intact.
Opened == inbound = << >> \/ inbound[1].damage = "none"

\* C14: when the streams could be opened and the operator did not interrupt
\* the run, the process ends with exit code 0, whatever the outcomes of the
\* tasks: a process that has terminated has returned 0, or 130 on an
\* interrupt.
C14_ExitCodeZeroUnlessInterrupted ==
    (phase = "exited" /\ Opened) =>
        exit_status \in {"return 0", "return 130"}

\* C14, in the runs whose standard output stays open.
C14_ExitCodeZeroWhileSinkOpen ==
    (phase = "exited" /\ Opened /\ output_stream = "open") =>
        exit_status \in {"return 0", "return 130"}

\* C15: when the reader closes standard output before or while phase_emit
\* streams the archive, the process ends by main returning 0: it is neither
\* killed by a signal nor does it exit with an error code.
C15_ClosedSinkExitsZero ==
    (phase = "exited" /\ output_stream = "closed") =>
        exit_status = "return 0"

\* C16: however the run ends (normal completion, an exception, an interrupt,
\* standard output closed early), the scratch directory is removed once the
\* process has terminated.
C16_ScratchDirRemoved ==
    phase = "exited" => ~temp_dir

\* C16, for the ends that pass through main's return: completion, exception
\* and interrupt.
C16_RemovedWhenMainReturns ==
    (phase = "exited" /\ exit_status # "SIGPIPE") => ~temp_dir

Undamaged(member) == member.damage = "none"

\* C18: a malformed entry of the inbound archive is dropped and every later
\* entry is still processed: the tasks phase_extract returns are those of the
\* archive without its damaged members, and the run is not aborted.
C18_DamagedEntryDroppedOnly ==
    /\ phase \in {"transform", "emit", "done"} =>
           tasks = ExtractAll(SelectSeq(inbound, Undamaged), << >>,
                              << >>).tasks
    /\ exit_status # "return 1"

\* The files flatten_copy has copied so far.
Copied ==
    {p \in src.files : ~StartsWith(basename(p), << "." >>)} \ files

\* C19: flatten_copy gives distinct source files distinct target names: two
\* different relative paths have different flat names, and no copy overwrites
\* another, so the destination holds as many files as were copied.
C19_FlatNamesDistinct ==
    flatten_pc \in {"copy", "done"} =>
        /\ \A p, q \in Copied : p # q => flat_name(p) # flat_name(q)
        /\ Cardinality(DOMAIN dest) = count

\* C19, for the relative paths that hold no underscore: they are copied to
\* targets of their own.
C19_DistinctWithoutUnderscore ==
    (/\ flatten_pc \in {"copy", "done"}
     /\ \A p \in Copied : RFind(p, "_") = 0)
        => /\ \A p, q \in Copied : p # q => flat_name(p) # flat_name(q)
           /\ Cardinality(DOMAIN dest) = count

\* C21: when convert_task_isolated has returned, with whatever outcome, no
\* alarm armed for its task is pending in the worker process, so that the
\* deadline of a task cannot interrupt a later task of the same worker: an
\* alarm is pending only for a task whose call is being executed.
C21_NoAlarmPendingAfterReturn ==
    \A t \in DOMAIN work :
        /\ work[t].pc = "returned" => ~work[t].alarm
        /\ work[t].pc = "queued" => ~work[t].alarm

\* C21 witness: the single worker of a pool of one is reused: the call for a
\* task has returned, and the worker executes a later task under the alarm
\* armed for that later task.
C21_Witness ==
    /\ phase = "transform"
    /\ n_jobs = 1
    /\ \E t, u \in DOMAIN work :
           /\ t < u
           /\ work[t].pc = "returned"
           /\ work[u].pc = "convert"
           /\ work[u].alarm

\* No element occurs twice in a sequence.
NoDuplicates(seq) ==
    \A i, j \in DOMAIN seq : i # j => seq[i] # seq[j]

\* Every URL was added to the queue at most once and is printed at most once
\* (a URL that was queued is printed or still in the queue), every queued
\* URL is visited, and every printed URL but the start URL has the domain of
\* the start URL and a path under its base path.
CrawlInvariant ==
    /\ NoDuplicates(printed \o queue)
    /\ \A i \in DOMAIN queue : queue[i] \in visited
    /\ \A i \in DOMAIN printed :
           printed[i] # start_url =>
               /\ printed[i].netloc = start_url.netloc
               /\ StartsWith(printed[i].path, BasePath(start_url))

\* C22: after any number of crawl steps of list_urls the invariant above
\* holds, and on a finite link graph the queue eventually becomes empty and
\* the crawl terminates.
C22_CrawlOncePerUrlAndTerminates ==
    /\ []CrawlInvariant
    /\ <>(crawl_pc = "done")

\* C22 witness: the crawl from 'http://h/d' has followed links, printed three
\* URLs or more, among them 'http://h/d/a', and has terminated.
C22_Witness ==
    /\ crawl_pc = "done"
    /\ Len(printed) >= 3
    /\ \E i \in DOMAIN printed :
           printed[i] = Url("h", << "/", "d", "/", "a" >>, "")
    /\ start_url = Url("h", << "/", "d" >>, "")

====
